---- MODULE Spec2Model ----
(***************************************************************************)
(* FoodScraper (src/main.rs): one run of `main`.                           *)
(*                                                                         *)
(* Texts on which the program does character work (URLs, page texts,       *)
(* titles, file names, site keys) are sequences of one-character strings.  *)
(* CSS selector strings and TOML field names are only compared and looked  *)
(* up, so they stay TLA+ strings.                                          *)
(***************************************************************************)
EXTENDS Integers, Sequences, FiniteSets, TLC

\* Number of iterations of the prompt loop a behaviour is followed for.
MaxAttempts == 3

(***************************************************************************)
(* Option<T>                                                               *)
(***************************************************************************)
None == [some |-> FALSE]
Some(x) == [some |-> TRUE, v |-> x]

(***************************************************************************)
(* Character sequences                                                     *)
(***************************************************************************)
Range(s) == {s[i] : i \in 1..Len(s)}
MinOf(S) == CHOOSE x \in S : \A y \in S : x <= y
MaxOf(S) == CHOOSE x \in S : \A y \in S : x >= y

\* char::is_whitespace, restricted to the characters the inputs use
White == {" ", "\n", "\r", "\t"}

\* str::trim: drop leading and trailing whitespace
trim(s) ==
  LET keep == {i \in 1..Len(s) : s[i] \notin White}
  IN  IF keep = {} THEN <<>> ELSE SubSeq(s, MinOf(keep), MaxOf(keep))

\* str::starts_with
StartsWith(s, pat) == Len(pat) <= Len(s) /\ SubSeq(s, 1, Len(pat)) = pat

\* str::contains
contains(s, pat) ==
  \E i \in 0..(Len(s) - Len(pat)) : SubSeq(s, i + 1, i + Len(pat)) = pat

\* index of the first character of s that lies in set D, or Len(s)+1
FirstIn(s, D) ==
  LET hits == {i \in 1..Len(s) : s[i] \in D}
  IN  IF hits = {} THEN Len(s) + 1 ELSE MinOf(hits)

(***************************************************************************)
(* Literals of the program and of its inputs                               *)
(***************************************************************************)
Origin15gram == <<"h","t","t","p","s",":","/","/","1","5","g","r","a","m",".","b","e","/">>
OriginDagelijksekost == <<"h","t","t","p","s",":","/","/","d","a","g","e","l","i","j","k","s","e","k","o","s","t",".","v","r","t",".","b","e","/">>
Key15gram == <<"1","5","g","r","a","m">>
KeyDagelijksekost == <<"d","a","g","e","l","i","j","k","s","e","k","o","s","t">>
SchemeHttp == <<"h","t","t","p">>
SchemeHttps == <<"h","t","t","p","s">>
RecipePrefix == <<"r","e","c","i","p","e","_">>
JsonSuffix == <<".","j","s","o","n">>
RecipeJson == <<"r","e","c","i","p","e",".","j","s","o","n">>

(***************************************************************************)
(* Url::parse (crate `url`), for lowercase ASCII input without userinfo    *)
(* or port: a scheme `alpha (alpha | digit | + | - | .)*` before the first *)
(* `:`, else the input is a relative reference and parsing fails; a        *)
(* special scheme needs a non-empty host and tolerates missing slashes; a  *)
(* non-special scheme has a host only after `//`.                          *)
(***************************************************************************)
Alpha == {"a","b","c","d","e","f","g","h","i","j","k","l","m","n","o","p","q","r","s","t","u","v","w","x","y","z"}
Digit == {"0","1","2","3","4","5","6","7","8","9"}
SpecialSchemes == {SchemeHttp, SchemeHttps, <<"f","t","p">>, <<"w","s">>, <<"w","s","s">>}
HostEnd == {"/", "?", "#"}
UrlErr == [ok |-> FALSE, scheme |-> <<>>, host |-> None]

StripSlashes(s) ==
  LET k == FirstIn(s, Range(s) \ {"/", "\\"})
  IN  SubSeq(s, k, Len(s))

UrlParse(s) ==
  LET c      == FirstIn(s, {":"})
      scheme == SubSeq(s, 1, c - 1)
      rest   == SubSeq(s, c + 1, Len(s))
      auth   == StripSlashes(rest)
      shost  == SubSeq(auth, 1, FirstIn(auth, HostEnd) - 1)
      after  == SubSeq(rest, 3, Len(rest))
      nhost  == SubSeq(after, 1, FirstIn(after, HostEnd) - 1)
  IN  IF c > Len(s) \/ c = 1 THEN UrlErr
      ELSE IF scheme[1] \notin Alpha
              \/ ~(Range(scheme) \subseteq Alpha \cup Digit \cup {"+", "-", "."})
        THEN UrlErr
      ELSE IF scheme \in SpecialSchemes
        THEN IF shost = <<>> \/ Range(shost) \cap White # {}
               THEN UrlErr
               ELSE [ok |-> TRUE, scheme |-> scheme, host |-> Some(shost)]
      ELSE IF StartsWith(rest, <<"/", "/">>) /\ nhost # <<>>
        THEN [ok |-> TRUE, scheme |-> scheme, host |-> Some(nhost)]
      ELSE [ok |-> TRUE, scheme |-> scheme, host |-> None]

\* validate_url: Ok, or Err with one of three messages
validate_url(input_url) ==
  LET url == UrlParse(trim(input_url))
  IN  IF url.ok
        THEN IF url.scheme = SchemeHttp \/ url.scheme = SchemeHttps
               THEN IF url.host.some
                      THEN [ok |-> TRUE, msg |-> "Valid URL"]
                      ELSE [ok |-> FALSE, msg |-> "Error: URL must contain a valid host."]
               ELSE [ok |-> FALSE, msg |-> "Error: URL must use http or https scheme."]
        ELSE [ok |-> FALSE, msg |-> "Error: Invalid URL format."]

\* mutant of BreaksLoop: the loop is left whatever was typed
BreaksLoop_Always(input_url) == TRUE

\* the condition of main's `if` that leaves the prompt loop
BreaksLoop(input_url) ==
  UrlParse(input_url).ok /\ contains(input_url, Origin15gram)

(***************************************************************************)
(* Parsed documents (scraper::Html).  A document is the sequence of its    *)
(* elements in document order.  An element carries what the extractors     *)
(* read: tag, classes, id, its parent's index (0: none), its position      *)
(* among the parent's children, the `src` attribute, its inner HTML and    *)
(* its descendant text nodes in document order.                            *)
(***************************************************************************)
El(tag, classes, id, parent, nth, src, html, text) ==
  [tag |-> tag, classes |-> classes, id |-> id, parent |-> parent, nth |-> nth,
   src |-> src, inner_html |-> html, text |-> text]

TomatoSoup == <<"T","o","m","a","t","o"," ","S","o","u","p">>
BoldSoup == <<"<","b",">","S","o","u","p","<","/","b",">">>
Soup == <<"S","o","u","p">>
TomatoOnionText == <<"2","0","0","g"," ","t","o","m","a","t","o","\n","\n","1"," ","o","n","i","o","n","\n">>
Tomato200g == <<"2","0","0","g"," ","t","o","m","a","t","o">>
Onion1 == <<"1"," ","o","n","i","o","n">>
Boil == <<"B","o","i","l">>
Serve == <<"S","e","r","v","e">>
ImgSrc == <<"a",".","j","p","g">>
NL == <<"\n">>

\* <h1 class="text-center">Tomato Soup</h1> <div class="large-8"> Warm<b>soup </b></div>
\* <div class="detail-ingr-block">200g tomato\n\n1 onion\n</div>
\* <div id="preparation"><h2/><ol>\n<li>Boil</li>\n<li>Serve</li><li>Boil</li>\n</ol></div>
\* <img class="recipe-image" src="a.jpg">
Doc15gram ==
  << El("h1", {"text-center"}, "", 0, 1, None, TomatoSoup, <<TomatoSoup>>),
     El("div", {"large-8"}, "", 0, 2, None, <<>>, << <<" ","W","a","r","m">>, <<"s","o","u","p"," ">> >>),
     El("div", {"detail-ingr-block"}, "", 0, 3, None, TomatoOnionText, <<TomatoOnionText>>),
     El("div", {}, "preparation", 0, 4, None, <<>>, <<NL, Boil, NL, Serve, Boil, NL>>),
     El("h2", {}, "", 4, 1, None, <<>>, <<>>),
     El("ol", {}, "", 4, 2, None, <<>>, <<NL, Boil, NL, Serve, Boil, NL>>),
     El("img", {"recipe-image"}, "", 0, 5, Some(ImgSrc), <<>>, <<>>) >>

\* <h1 class="text-center"><b>Soup</b></h1>
\* <ul class="detail-ingr-block"><li>200g tomato</li>\n\n<li>1 onion</li>\n</ul>
\* <div id="preparation"><ol><li>Boil</li></ol></div>
\* <img class="recipe-image"> <img class="recipe-image" src="a.jpg">
DocItems ==
  << El("h1", {"text-center"}, "", 0, 1, None, BoldSoup, <<Soup>>),
     El("ul", {"detail-ingr-block"}, "", 0, 2, None, <<>>, <<Tomato200g, <<"\n","\n">>, Onion1, NL>>),
     El("div", {}, "preparation", 0, 3, None, <<>>, <<Boil>>),
     El("ol", {}, "", 3, 1, None, <<>>, <<Boil>>),
     El("img", {"recipe-image"}, "", 0, 4, None, <<>>, <<>>),
     El("img", {"recipe-image"}, "", 0, 5, Some(ImgSrc), <<>>, <<>>) >>

\* a page of another site: none of the 15gram class names occurs
\* <h1 class="title">Tomato Soup</h1> <ul class="ingredients"><li>1 onion</li></ul>
\* <ol class="steps"><li>Boil</li></ol> <img class="hero" src="a.jpg">
DocOther ==
  << El("h1", {"title"}, "", 0, 1, None, TomatoSoup, <<TomatoSoup>>),
     El("ul", {"ingredients"}, "", 0, 2, None, <<>>, <<Onion1>>),
     El("ol", {"steps"}, "", 0, 3, None, <<>>, <<Boil>>),
     El("img", {"hero"}, "", 0, 4, Some(ImgSrc), <<>>, <<>>) >>

\* a page without any element of interest
DocEmpty == <<>>

Documents == {Doc15gram, DocItems, DocOther, DocEmpty}

(***************************************************************************)
(* Selector::parse (crate `scraper`) on the selector strings that occur:   *)
(* a compound selector, optionally as the child of an element with an id.  *)
(* "" in a component means "any".  The empty string and `h1[` do not       *)
(* parse.                                                                  *)
(***************************************************************************)
Compound(tag, class, id, parent_id, nth) ==
  [tag |-> tag, class |-> class, id |-> id, parent_id |-> parent_id, nth |-> nth]

SelectorParse(selector) ==
  CASE selector = "h1.text-center"    -> Some(Compound("h1", "text-center", "", "", 0))
    [] selector = ".large-8"          -> Some(Compound("", "large-8", "", "", 0))
    [] selector = ".detail-ingr-block" -> Some(Compound("", "detail-ingr-block", "", "", 0))
    [] selector = "#preparation > ol:nth-child(2)"
                                      -> Some(Compound("ol", "", "", "preparation", 2))
    [] selector = ".recipe-image"     -> Some(Compound("", "recipe-image", "", "", 0))
    [] selector = "h1.title"          -> Some(Compound("h1", "title", "", "", 0))
    [] selector = ".intro"            -> Some(Compound("", "intro", "", "", 0))
    [] selector = ".ingredients"      -> Some(Compound("", "ingredients", "", "", 0))
    [] selector = ".steps"            -> Some(Compound("", "steps", "", "", 0))
    [] selector = "img.hero"          -> Some(Compound("img", "hero", "", "", 0))
    [] OTHER                          -> None

Matches(document, i, c) ==
  LET e == document[i]
  IN  /\ c.tag = "" \/ e.tag = c.tag
      /\ c.class = "" \/ c.class \in e.classes
      /\ c.id = "" \/ e.id = c.id
      /\ c.nth = 0 \/ e.nth = c.nth
      /\ c.parent_id = "" \/ (e.parent # 0 /\ document[e.parent].id = c.parent_id)

\* select_elements: the first element matching the selector, if the
\* selector parses and an element matches
select_elements(document, selector) ==
  LET parsed_selector == SelectorParse(selector)
      hits == {i \in 1..Len(document) : Matches(document, i, parsed_selector.v)}
  IN  IF ~parsed_selector.some THEN None
      ELSE IF hits = {} THEN None
      ELSE Some(document[MinOf(hits)])

(***************************************************************************)
(* The five extractors                                                     *)
(***************************************************************************)
RECURSIVE Join(_, _)
\* [&str]::join(sep)
Join(parts, sep) ==
  IF parts = <<>> THEN <<>>
  ELSE IF Len(parts) = 1 THEN parts[1]
  ELSE parts[1] \o sep \o Join(Tail(parts), sep)

RECURSIVE TrimmedNonEmpty(_)
\* .map(|s| s.trim()).filter(|s| !s.is_empty()).collect()
TrimmedNonEmpty(parts) ==
  IF parts = <<>> THEN <<>>
  ELSE LET t == trim(parts[1])
       IN  IF t = <<>> THEN TrimmedNonEmpty(Tail(parts))
           ELSE <<t>> \o TrimmedNonEmpty(Tail(parts))

\* the css_selector parameter is not read by the body
get_recipe_title(document, css_selector) ==
  LET e == select_elements(document, "h1.text-center")
  IN  IF e.some THEN Some(e.v.inner_html) ELSE None

get_recipe_description(document) ==
  LET e == select_elements(document, ".large-8")
  IN  IF e.some THEN Some(trim(Join(e.v.text, <<" ">>))) ELSE None

get_recipe_ingredients(document) ==
  LET e == select_elements(document, ".detail-ingr-block")
  IN  IF e.some THEN Some(TrimmedNonEmpty(e.v.text)) ELSE None

get_recipe_steps(document) ==
  LET e == select_elements(document, "#preparation > ol:nth-child(2)")
  IN  IF e.some THEN Some(TrimmedNonEmpty(e.v.text)) ELSE None

get_recipe_image(document) ==
  LET e == select_elements(document, ".recipe-image")
  IN  IF e.some THEN e.v.src ELSE None

(***************************************************************************)
(* selectors.toml: toml::Value.  A table maps keys to values; a value is   *)
(* a string, a table, or something else (here an integer).                 *)
(***************************************************************************)
TomlStr(s) == [kind |-> "str", s |-> s]
TomlInt == [kind |-> "int"]
TomlTable(t) == [kind |-> "table", t |-> t]

\* Value::get: the entry of a table; None for a missing key or a non-table
Get(value, key) ==
  IF value.kind = "table" /\ key \in DOMAIN value.t THEN Some(value.t[key]) ELSE None

\* mutant of StrOrDefault: a missing entry defaults to the universal selector
StrOrDefault_Universal(entry) ==
  IF entry.some /\ entry.v.kind = "str" THEN entry.v.s ELSE "*"

\* .and_then(Value::as_str).unwrap_or_default().to_string()
StrOrDefault(entry) ==
  IF entry.some /\ entry.v.kind = "str" THEN entry.v.s ELSE ""

SelectorFields == {"title", "description", "ingredients", "steps", "image"}

Site15gramFull ==
  TomlTable([title |-> TomlStr("h1.text-center"), description |-> TomlStr(".large-8"),
             ingredients |-> TomlStr(".detail-ingr-block"),
             steps |-> TomlStr("#preparation > ol:nth-child(2)"),
             image |-> TomlStr(".recipe-image")])
\* no `title` and no `steps` entry; `image` matches nothing on a 15gram page
SitePartial ==
  TomlTable([description |-> TomlStr(".large-8"),
             ingredients |-> TomlStr(".detail-ingr-block"),
             image |-> TomlStr("img.hero")])
\* selectors of another page layout; `description` does not parse, `steps` is no string
SiteOther ==
  TomlTable([title |-> TomlStr("h1.title"), description |-> TomlStr("h1["),
             ingredients |-> TomlStr(".ingredients"), steps |-> TomlInt,
             image |-> TomlStr("img.hero")])
SiteEmpty == TomlTable(<<>>)

\* what fs::read_to_string and toml::from_str make of selectors.toml
ConfigFiles ==
  { [kind |-> "missing"],
    [kind |-> "garbage"],
    [kind |-> "toml", value |-> TomlTable(<<>>)],
    [kind |-> "toml", value |-> TomlTable(KeyDagelijksekost :> Site15gramFull)],
    [kind |-> "toml", value |-> TomlTable(Key15gram :> Site15gramFull)],
    [kind |-> "toml", value |-> TomlTable(Key15gram :> SitePartial)],
    [kind |-> "toml", value |-> TomlTable(Key15gram :> SiteOther @@ KeyDagelijksekost :> SitePartial)],
    [kind |-> "toml", value |-> TomlTable(Key15gram :> SiteEmpty)],
    [kind |-> "toml", value |-> TomlTable(Key15gram :> TomlInt)] }

NoSelectors ==
  [title |-> "", description |-> "", ingredients |-> "", steps |-> "", image |-> ""]

\* load_selectors(file_path, website), file being the content found at file_path
load_selectors(file, website) ==
  IF file.kind = "missing" THEN [ok |-> FALSE, err |-> "read", selectors |-> NoSelectors]
  ELSE IF file.kind = "garbage" THEN [ok |-> FALSE, err |-> "parse", selectors |-> NoSelectors]
  ELSE LET website_selectors == Get(file.value, website)
       IN  IF ~website_selectors.some
             THEN [ok |-> FALSE, err |-> "Website not found in selectors file",
                   selectors |-> NoSelectors]
             ELSE [ok |-> TRUE, err |-> "",
                   selectors |->
                     [title       |-> StrOrDefault(Get(website_selectors.v, "title")),
                      description |-> StrOrDefault(Get(website_selectors.v, "description")),
                      ingredients |-> StrOrDefault(Get(website_selectors.v, "ingredients")),
                      steps       |-> StrOrDefault(Get(website_selectors.v, "steps")),
                      image       |-> StrOrDefault(Get(website_selectors.v, "image"))]]

(***************************************************************************)
(* Recipe, its file name and its JSON form                                 *)
(***************************************************************************)
NoRecipe ==
  [title |-> None, description |-> None, ingredients |-> None, steps |-> None,
   image_link |-> None]

\* main, lines 76-82
BuildRecipe(document, selectors) ==
  [title       |-> get_recipe_title(document, selectors.title),
   description |-> get_recipe_description(document),
   ingredients |-> get_recipe_ingredients(document),
   steps       |-> get_recipe_steps(document),
   image_link  |-> get_recipe_image(document)]

\* mutant of FileName: `/` in the title is replaced by `_`
FileName_Sanitized(title) ==
  IF title.some
    THEN RecipePrefix
           \o [i \in 1..Len(title.v) |-> IF title.v[i] = "/" THEN "_" ELSE title.v[i]]
           \o JsonSuffix
    ELSE RecipeJson

\* main, lines 85-88
FileName(title) ==
  IF title.some THEN RecipePrefix \o title.v \o JsonSuffix ELSE RecipeJson

\* serde_json of Option<T>: null, or the value
JsonOf(opt) == IF opt.some THEN [json |-> "value", v |-> opt.v] ELSE [json |-> "null"]

\* mutant of Serialize: absent fields are left out of the record
Serialize_SkipNone(recipe) ==
  [f \in {g \in DOMAIN recipe : recipe[g].some} |-> JsonOf(recipe[f])]

\* #[derive(Serialize)] on Recipe: one member per field of the struct
Serialize(recipe) == [f \in DOMAIN recipe |-> JsonOf(recipe[f])]

(***************************************************************************)
(* Lines typed on stdin: candidates with their line end, one with          *)
(* surrounding blanks, and the empty read at end of input.                 *)
(***************************************************************************)
UrlCandidates ==
  { Origin15gram \o <<"r">>,
    OriginDagelijksekost \o <<"r">>,
    <<"h","t","t","p",":","/","/","1","5","g","r","a","m",".","b","e","/","r">>,
    <<"h","t","t","p","s",":","/","/","e","x","a","m","p","l","e",".","c","o","m","/","r">>,
    <<"h","t","t","p",":","/","/","e","x","a","m","p","l","e",".","c","o","m","/","?","u","=">> \o Origin15gram,
    <<"f","t","p",":","/","/","h","/">> \o Origin15gram,
    <<"m","a","i","l","t","o",":">> \o Origin15gram,
    <<"x"," ">> \o Origin15gram,
    <<"1","5","g","r","a","m",".","b","e","/","r">> }

StdinLines ==
  {u \o <<"\n">> : u \in UrlCandidates}
    \cup {<<" ">> \o Origin15gram \o <<"r","\r","\n">>, <<>>}

(***************************************************************************)
(* One run of main                                                         *)
(***************************************************************************)
VARIABLES
  pc,             \* where main is: "prompt", "fetch", "load", "extract", "write", "done", "failed"
  attempts,       \* iterations of the prompt loop begun so far
  input_url,      \* the trimmed line of the latest iteration; after the loop, its result
  stdout,         \* the lines printed so far
  requested,      \* the URLs handed to reqwest::get so far
  document,       \* the parsed page
  selectors_toml, \* the content of selectors.toml
  website,        \* the site key handed to load_selectors (<<>> before the call)
  selectors,      \* the Selectors loaded
  recipe,         \* the Recipe built
  file_name,      \* the file name derived from the title
  json,           \* the serialized Recipe
  files,          \* the files written under recipes/
  error           \* the Err main returned with ("" if none)

vars == <<pc, attempts, input_url, stdout, requested, document, selectors_toml,
          website, selectors, recipe, file_name, json, files, error>>

MsgPrompt == "Please enter the recipe URL:"
MsgInvalid == "Invalid URL or URL does not contain 'https://15gram.be/'. Please try again."
MsgCreated == "Recipe JSON file created successfully."

Init ==
  /\ pc = "prompt"
  /\ attempts = 0
  /\ input_url = <<>>
  /\ stdout = <<>>
  /\ requested = <<>>
  /\ document = <<>>
  /\ selectors_toml \in ConfigFiles
  /\ website = <<>>
  /\ selectors = NoSelectors
  /\ recipe = NoRecipe
  /\ file_name = <<>>
  /\ json = <<>>
  /\ files = {}
  /\ error = ""

\* lines 52-66: one iteration of the prompt loop
ReadUrl ==
  /\ pc = "prompt"
  /\ attempts < MaxAttempts
  /\ \E line \in StdinLines :
       LET url == trim(line)
           checked == validate_url(url)
       IN  /\ input_url' = url
           /\ IF BreaksLoop(url)
                THEN /\ stdout' = stdout \o <<MsgPrompt, checked.msg>>
                     /\ pc' = "fetch"
                ELSE /\ stdout' = stdout \o <<MsgPrompt, checked.msg, MsgInvalid>>
                     /\ pc' = "prompt"
  /\ attempts' = attempts + 1
  /\ UNCHANGED <<requested, document, selectors_toml, website, selectors, recipe,
                 file_name, json, files, error>>

\* line 54: read_line fails and `?` returns from main
ReadLineError ==
  /\ pc = "prompt"
  /\ attempts < MaxAttempts
  /\ attempts' = attempts + 1
  /\ input_url' = <<>>
  /\ stdout' = Append(stdout, MsgPrompt)
  /\ pc' = "failed"
  /\ error' = "stdin"
  /\ UNCHANGED <<requested, document, selectors_toml, website, selectors, recipe,
                 file_name, json, files>>

\* what reqwest::get can answer: it serves http and https only
Fetchable(url) ==
  LET parsed == UrlParse(url)
  IN  parsed.ok /\ parsed.scheme \in {SchemeHttp, SchemeHttps}

\* lines 69-70: the page is fetched and parsed
FetchOk ==
  /\ pc = "fetch"
  /\ Fetchable(input_url)
  /\ requested' = Append(requested, input_url)
  /\ \E page \in Documents : document' = page
  /\ pc' = "load"
  /\ UNCHANGED <<attempts, input_url, stdout, selectors_toml, website, selectors,
                 recipe, file_name, json, files, error>>

\* line 69: the request or the read of its body fails and `?` returns from main
FetchError ==
  /\ pc = "fetch"
  /\ requested' = Append(requested, input_url)
  /\ pc' = "failed"
  /\ error' = "fetch"
  /\ UNCHANGED <<attempts, input_url, stdout, document, selectors_toml, website,
                 selectors, recipe, file_name, json, files>>

\* line 73: load_selectors("selectors.toml", "15gram")?
LoadSelectors ==
  /\ pc = "load"
  /\ website' = Key15gram
  /\ LET loaded == load_selectors(selectors_toml, Key15gram)
     IN  IF loaded.ok
           THEN /\ selectors' = loaded.selectors
                /\ pc' = "extract"
                /\ error' = error
           ELSE /\ selectors' = selectors
                /\ pc' = "failed"
                /\ error' = loaded.err
  /\ UNCHANGED <<attempts, input_url, stdout, requested, document, selectors_toml,
                 recipe, file_name, json, files>>

\* lines 76-91: the Recipe, the file name and the JSON text
Extract ==
  /\ pc = "extract"
  /\ recipe' = BuildRecipe(document, selectors)
  /\ file_name' = FileName(recipe'.title)
  /\ json' = Serialize(recipe')
  /\ pc' = "write"
  /\ UNCHANGED <<attempts, input_url, stdout, requested, document, selectors_toml,
                 website, selectors, files, error>>

\* lines 92-99: the file is created and written
WriteOk ==
  /\ pc = "write"
  /\ files' = files \cup {[path |-> <<"r","e","c","i","p","e","s","/">> \o file_name,
                           content |-> json]}
  /\ stdout' = Append(stdout, MsgCreated)
  /\ pc' = "done"
  /\ UNCHANGED <<attempts, input_url, requested, document, selectors_toml, website,
                 selectors, recipe, file_name, json, error>>

\* lines 92-95: create_dir_all, File::create or write_all fails
WriteError ==
  /\ pc = "write"
  /\ pc' = "failed"
  /\ error' = "write"
  /\ UNCHANGED <<attempts, input_url, stdout, requested, document, selectors_toml,
                 website, selectors, recipe, file_name, json, files>>

Next ==
  \/ ReadUrl
  \/ ReadLineError
  \/ FetchOk
  \/ FetchError
  \/ LoadSelectors
  \/ Extract
  \/ WriteOk
  \/ WriteError

Spec == Init /\ [][Next]_vars

(***************************************************************************)
(* Properties                                                              *)
(***************************************************************************)
\* the prompt loop has been left with input_url
LeftLoop ==
  \/ pc \in {"fetch", "load", "extract", "write", "done"}
  \/ pc = "failed" /\ error # "stdin"

\* the Recipe has been built
RecipeBuilt ==
  \/ pc \in {"write", "done"}
  \/ pc = "failed" /\ error = "write"

RecipeFields == {"title", "description", "ingredients", "steps", "image_link"}
RecipeField(f) == IF f = "image" THEN "image_link" ELSE f
FirstLabel(host) == SubSeq(host, 1, FirstIn(host, {"."}) - 1)
FullText(e) == Join(e.text, <<>>)

\* C1: the latest input is accepted (the loop is left with it) exactly when
\* it begins with one of the two supported origins.
C1_AcceptedIffAllowListPrefix ==
  (attempts > 0 /\ error # "stdin") =>
    (LeftLoop <=> (\/ StartsWith(input_url, Origin15gram)
                   \/ StartsWith(input_url, OriginDagelijksekost)))

C3_SiteKeyIsFirstHostLabel ==
  website # <<>> =>
    /\ UrlParse(input_url).host.some
    /\ website = FirstLabel(UrlParse(input_url).host.v)

\* C4: a field whose configured selector is the empty string is absent in
\* the Recipe, whatever the document contains.
C4_EmptySelectorGivesAbsentField ==
  RecipeBuilt =>
    \A f \in SelectorFields : selectors[f] = "" => recipe[RecipeField(f)] = None

C6_UselessSelectorGivesAbsentField ==
  RecipeBuilt =>
    /\ \A f \in SelectorFields :
         ~select_elements(document, selectors[f]).some
           => recipe[RecipeField(f)] = None
    /\ LET e == select_elements(document, selectors.image)
       IN  (e.some /\ ~e.v.src.some) => recipe.image_link = None

\* C7: with selectors.toml read and parsed, the lookup fails exactly when
\* the site key is no key of the mapping; when it is one the lookup succeeds
\* whatever entries the site has, each selector being the string of its
\* entry, or the empty string when the site has no such string entry.
C7_LookupFailsIffKeyMissing ==
  (website # <<>> /\ selectors_toml.kind = "toml") =>
    LET sites == selectors_toml.value.t
    IN  /\ (pc = "failed" /\ error = "Website not found in selectors file")
              <=> website \notin DOMAIN sites
        /\ website \in DOMAIN sites =>
             /\ error \in {"", "write"}
             /\ \A f \in SelectorFields :
                  LET site == sites[website]
                  IN  selectors[f] =
                        IF site.kind = "table" /\ f \in DOMAIN site.t
                             /\ site.t[f].kind = "str"
                          THEN site.t[f].s
                          ELSE ""

\* a lookup that succeeded for a site with some entries and without others
C7_Witness ==
  /\ pc = "extract"
  /\ website \in DOMAIN selectors_toml.value.t
  /\ \E f, g \in SelectorFields : selectors[f] = "" /\ selectors[g] # ""

\* C8: ingredients and steps are the trimmed non-empty text segments of the
\* matched element, in order, duplicates kept; an element whose text is
\* "200g tomato\n\n1 onion\n" gives the two ingredients "200g tomato" and
\* "1 onion".
C8_SegmentsOfMatchedText ==
  RecipeBuilt =>
    LET ingr  == select_elements(document, ".detail-ingr-block")
        steps == select_elements(document, "#preparation > ol:nth-child(2)")
    IN  /\ ingr.some => recipe.ingredients = Some(TrimmedNonEmpty(ingr.v.text))
        /\ steps.some => recipe.steps = Some(TrimmedNonEmpty(steps.v.text))
        /\ (ingr.some /\ FullText(ingr.v) = TomatoOnionText)
             => recipe.ingredients = Some(<<Tomato200g, Onion1>>)

C10_FetchedUrlsAreValidated ==
  \A i \in 1..Len(requested) : validate_url(requested[i]).ok

====
